---- MODULE Spec2Model ----
(***************************************************************************)
(* Model of cqparts' thread builder (types/threads/base.py) and of the     *)
(* coordinate system algebra (utils/geometry.py).                          *)
(*                                                                         *)
(* Three independent parts of the program are modelled, each with its own  *)
(* specification over the shared variables:                                *)
(*   SpecCS      CoordSystem.__add__ / from_transform                      *)
(*   SpecXS      profile_to_cross_section                                  *)
(*   SpecThread  Thread.__init__ and Thread.make                           *)
(* Geometry is kept on an integer grid: frames are axis aligned, lengths   *)
(* and curve parameters are integers in model units.                       *)
(***************************************************************************)
EXTENDS Integers, Sequences, FiniteSets, TLC

VARIABLES
    csSelf,     \* CoordSystem A (left operand of +)
    csOther,    \* right operand B: a CoordSystem or a value of another type
    csThird,    \* CoordSystem C
    csPy,       \* major version of the interpreter running the code
    csOut,      \* what the evaluation of the sums produced
    xsIn,       \* arguments of a profile_to_cross_section call
    xsOut,      \* its outcome: exception, emitted sketch calls, counts, lead
    thIn,       \* class and keyword arguments of a Thread construction
    thObj,      \* the constructed Thread instance (its attributes)
    thErr,      \* exception raised by the constructor
    pc,         \* position of the running make() call
    stages,     \* pipeline stages the running make() has entered, in order
    mk,         \* local variables of the running make() call
    result      \* value make() returned

vars == <<csSelf, csOther, csThird, csPy, csOut, xsIn, xsOut,
          thIn, thObj, thErr, pc, stages, mk, result>>

csVars == <<csSelf, csOther, csThird, csPy, csOut>>
xsVars == <<xsIn, xsOut>>
thVars == <<thIn, thObj, thErr, pc, stages, mk, result>>

\* ---------------------------------------------------------------- bounds
MaxOrigin == 1
MaxSegs == 3
MaxLen == 2
MaxBudget == 4
MaxCount == 2
MaxKwargs == 2

\* ---------------------------------------------------------------- errors
NoError == [kind |-> "none", names |-> {}]
Raise(kind, names) == [kind |-> kind, names |-> names]

\* ================================================================
\* utils/geometry.py : CoordSystem
\* ================================================================
VSub(a, b) == <<a[1] - b[1], a[2] - b[2], a[3] - b[3]>>
Cross(a, b) == <<a[2] * b[3] - a[3] * b[2],
                 a[3] * b[1] - a[1] * b[3],
                 a[1] * b[2] - a[2] * b[1]>>
Dot(a, b) == a[1] * b[1] + a[2] * b[2] + a[3] * b[3]

Sign(n) == IF n > 0 THEN 1 ELSE IF n < 0 THEN -1 ELSE 0
\* Vector.normalized() of an axis aligned vector (one non-zero component)
Normalized(v) == <<Sign(v[1]), Sign(v[2]), Sign(v[3])>>

\* FreeCAD.Matrix: 4x4, row major
MatEntry(m, n, i, j) ==
    m[i][1] * n[1][j] + m[i][2] * n[2][j] + m[i][3] * n[3][j] + m[i][4] * n[4][j]
MatRow(m, n, i) ==
    <<MatEntry(m, n, i, 1), MatEntry(m, n, i, 2), MatEntry(m, n, i, 3), MatEntry(m, n, i, 4)>>
MatMul(m, n) == <<MatRow(m, n, 1), MatRow(m, n, 2), MatRow(m, n, 3), MatRow(m, n, 4)>>
\* Matrix.multiply(Vector): the affine image of a point
MatVec(m, v) ==
    <<m[1][1] * v[1] + m[1][2] * v[2] + m[1][3] * v[3] + m[1][4],
      m[2][1] * v[1] + m[2][2] * v[2] + m[2][3] * v[3] + m[2][4],
      m[3][1] * v[1] + m[3][2] * v[2] + m[3][3] * v[3] + m[3][4]>>

\* cadquery.Plane.__init__ as inherited by CoordSystem: the directions are
\* normalised and the y direction is derived from the other two.
CoordSystem(origin, xDir, normal) ==
    [cls |-> "CoordSystem",
     origin |-> origin,
     xDir |-> Normalized(xDir),
     yDir |-> Cross(Normalized(normal), Normalized(xDir)),
     zDir |-> Normalized(normal)]

NoFrame == [cls |-> "NoneType"]

\* Plane.rG, the forward (local to world) matrix the plane derives from its
\* axes and origin: the axes are the columns of the rotation, the origin is
\* the translation column.
Plane_rG(cs) ==
    << <<cs.xDir[1], cs.yDir[1], cs.zDir[1], cs.origin[1]>>,
       <<cs.xDir[2], cs.yDir[2], cs.zDir[2], cs.origin[2]>>,
       <<cs.xDir[3], cs.yDir[3], cs.zDir[3], cs.origin[3]>>,
       <<0, 0, 0, 1>> >>

\* the local_to_world_transform property: return self.rG
local_to_world_transform(cs) == Plane_rG(cs)

\* mutant: the axes are taken from the transformed points without
\* subtracting the transformed origin
from_transform_noOffset(matrix) ==
    CoordSystem(MatVec(matrix, <<0, 0, 0>>),
                MatVec(matrix, <<1, 0, 0>>),
                MatVec(matrix, <<0, 0, 1>>))

from_transform(matrix) ==
    LET offset   == MatVec(matrix, <<0, 0, 0>>)
        x_vertex == MatVec(matrix, <<1, 0, 0>>)
        z_vertex == MatVec(matrix, <<0, 0, 1>>)
        x_axis   == VSub(x_vertex, offset)
        z_axis   == VSub(z_vertex, offset)
    IN  CoordSystem(offset, x_axis, z_axis)

\* str.format of one replacement field whose value is a type object.
\* A field "{name!r}" (conversion r, empty format spec) renders repr(value).
\* A field "{name:r}" passes the format spec "r" to type.__format__, which is
\* object.__format__: Python 3 raises TypeError (unsupported format string),
\* Python 2 formats str(value) with code 'r' and raises ValueError (unknown
\* format code).  Neither message contains the operand types.
FormatField(valueCls, formatSpec, py) ==
    IF formatSpec = ""
    THEN [raised |-> NoError, names |-> {valueCls}]
    ELSE [raised |-> Raise(IF py >= 3 THEN "TypeError" ELSE "ValueError", {}),
          names |-> {}]

\* the message of __add__'s else branch, "adding a {other_cls:r} to a {self_cls:r} ..."
AddErrorMessage(selfCls, otherCls, py) ==
    LET f1 == FormatField(otherCls, "r", py)
        f2 == FormatField(selfCls, "r", py)
    IN  IF f1.raised.kind # "none" THEN f1
        ELSE IF f2.raised.kind # "none" THEN f2
        ELSE [raised |-> NoError, names |-> f1.names \cup f2.names]

\* CoordSystem.__add__
CoordSystem_add(self, other, py) ==
    IF other.cls = "CoordSystem"
    THEN LET self_transform  == local_to_world_transform(self)
             other_transform == local_to_world_transform(other)
         IN  [raised |-> NoError,
              value |-> from_transform(MatMul(self_transform, other_transform))]
    ELSE LET msg == AddErrorMessage(self.cls, other.cls, py)
         IN  IF msg.raised.kind # "none"
             THEN [raised |-> msg.raised, value |-> NoFrame]
             ELSE [raised |-> Raise("TypeError", msg.names), value |-> NoFrame]

\* ---- inputs
Axes == {<<1, 0, 0>>, <<-1, 0, 0>>, <<0, 1, 0>>, <<0, -1, 0>>, <<0, 0, 1>>, <<0, 0, -1>>}
Origins == {<<k, 0 - 2 * k, 3 * k>> : k \in 0..MaxOrigin}
\* every orthonormal frame on the grid
Frames == {CoordSystem(f[1], f[2], f[3]) :
              f \in {g \in Origins \X Axes \X Axes : Dot(g[2], g[3]) = 0}}
\* values of other types that may be handed to +
NonFrames == {[cls |-> "int"], [cls |-> "tuple"], [cls |-> "Plane"], [cls |-> "NoneType"]}
PyVersions == {2, 3}
IdentityFrame == CoordSystem(<<0, 0, 0>>, <<1, 0, 0>>, <<0, 0, 1>>)

NoSum == [raised |-> NoError, value |-> NoFrame]
CsIdle == [op |-> "none", ab |-> NoSum, bc |-> NoSum, ab_c |-> NoSum, a_bc |-> NoSum,
           a_id |-> NoSum, id_a |-> NoSum]

\* A + B + C evaluated both ways, A + identity and identity + A, for frames
Compose ==
    /\ csOut.op = "none"
    /\ \E a \in {csSelf}, b \in Frames, c \in Frames, py \in {csPy} :
        \E ab \in {CoordSystem_add(a, b, py)}, bc \in {CoordSystem_add(b, c, py)} :
            /\ csOther' = b
            /\ csThird' = c
            /\ csOut' = [op |-> "compose",
                         ab |-> ab,
                         bc |-> bc,
                         ab_c |-> CoordSystem_add(ab.value, c, py),
                         a_bc |-> CoordSystem_add(a, bc.value, py),
                         a_id |-> CoordSystem_add(a, IdentityFrame, py),
                         id_a |-> CoordSystem_add(IdentityFrame, a, py)]
    /\ UNCHANGED <<csSelf, csPy, xsVars, thVars>>

\* A + other for a value of another type
AddOther ==
    /\ csOut.op = "none"
    /\ \E a \in {csSelf}, other \in NonFrames, py \in PyVersions :
        /\ csOther' = other
        /\ csPy' = py
        /\ csOut' = [CsIdle EXCEPT !.op = "add", !.ab = CoordSystem_add(a, other, py)]
    /\ UNCHANGED <<csSelf, csThird, xsVars, thVars>>

\* ================================================================
\* types/threads/base.py : profile_to_cross_section
\* ================================================================
Abs(n) == IF n < 0 THEN 0 - n ELSE n
RECURSIVE GCD(_, _)
GCD(a, b) == IF b = 0 THEN a ELSE GCD(b, a % b)
\* the rational n/d in lowest terms with a positive denominator
Rat(n, d) ==
    LET g == GCD(Abs(n), Abs(d))
        s == IF d < 0 THEN -1 ELSE 1
    IN  <<(s * n) \div g, (s * d) \div g>>
CeilDiv(a, b) == 0 - ((0 - a) \div b)

RoundDigits == 7
RECURSIVE Pow10(_)
Pow10(k) == IF k = 0 THEN 1 ELSE 10 * Pow10(k - 1)
\* round(num / den, 7), as an integer number of 1e-7 units; ties go to even
Round7(num, den) ==
    LET S == Pow10(RoundDigits)
        q == (num * S) \div den
        r == (num * S) - q * den
    IN  IF 2 * r > den THEN q + 1
        ELSE IF 2 * r = den THEN (IF q % 2 = 1 THEN q + 1 ELSE q)
        ELSE q

RECURSIVE SumLengths(_)
\* wire.Length()
SumLengths(edges) ==
    IF edges = <<>> THEN 0 ELSE Head(edges).Length + SumLengths(Tail(edges))

\* mutant: the edge's length is not divided by the wire's length, so an edge
\* one unit long gets the whole budget
EdgeVertices_unweighted(length, total, min_vertices) ==
    CeilDiv(Round7(length, 1) * min_vertices, Pow10(RoundDigits))

\* int(ceil(round(e.Length() / wire.Length(), 7) * min_vertices))
EdgeVertices(length, total, min_vertices) ==
    CeilDiv(Round7(length, total) * min_vertices, Pow10(RoundDigits))

\* ---- vertices and their transform
Known(x, z) == [known |-> TRUE, x |-> x, z |-> z, edge |-> 0, at |-> <<0, 1>>]
\* a point of a curved edge whose coordinates the model does not compute
OnCurve(i, u) == [known |-> FALSE, x |-> <<0, 1>>, z |-> <<0, 1>>, edge |-> i, at |-> u]
Pt(p) == Known(Rat(p[1], 1), Rat(p[2], 1))

\* curve.value(u) / edge.valueAt(u): the point of edge i's curve at PARAMETER u.
\* A line is parametrised by the distance from its start point.  Any other
\* curve has its own parametrisation over ParameterRange; its first and last
\* parameters give the edge's start and end point.
CurveValue(i, edge, u) ==
    IF edge.geomType = "LINE"
    THEN Known(Rat(edge.startPoint[1] * edge.Length * u[2]
                     + u[1] * (edge.endPoint[1] - edge.startPoint[1]),
                   edge.Length * u[2]),
               Rat(edge.startPoint[2] * edge.Length * u[2]
                     + u[1] * (edge.endPoint[2] - edge.startPoint[2]),
                   edge.Length * u[2]))
    ELSE IF u = Rat(edge.ParameterRange[2], 1) THEN Pt(edge.endPoint)
    ELSE IF u = Rat(edge.ParameterRange[1], 1) THEN Pt(edge.startPoint)
    ELSE OnCurve(i, u)

\* cart2polar and transform: radius = x, angle = (z / lead) * 2 pi, negated
\* unless lefthand.  The angle is kept as a fraction of a full turn and the
\* point stays in polar form (radius * cos, radius * sin are not evaluated).
transform(vertex, lead, lefthand) ==
    [known |-> vertex.known,
     radius |-> vertex.x,
     turns |-> IF lefthand THEN Rat(vertex.z[1], vertex.z[2] * lead)
               ELSE Rat(0 - vertex.z[1], vertex.z[2] * lead),
     edge |-> vertex.edge, at |-> vertex.at, lefthand |-> lefthand]

\* ---- sketch calls
Elem(op, i, pts) == [op |-> op, edge |-> i, pts |-> pts]

\* apply_spline: the sample points of one edge; vert_count # 0
SplinePoints(i, edge, vert_count, lead, lefthand) ==
    LET span == IF edge.geomType = "CIRCLE" THEN edge.ParameterRange[2] ELSE edge.Length
    IN  [j \in 1..vert_count |->
            transform(CurveValue(i, edge, Rat(j * span, vert_count)), lead, lefthand)]

\* the body of the loop over the edges: apply_arc, apply_radial_line or
\* apply_spline (the caller has excluded vert_count = 0 for a spline)
EdgeElement(i, edge, vert_count, lead, lefthand) ==
    IF edge.geomType = "LINE" /\ edge.startPoint[1] = edge.endPoint[1]
    THEN Elem("threePointArc", i,
              <<transform(CurveValue(i, edge, Rat(edge.Length, 2)), lead, lefthand),
                transform(CurveValue(i, edge, Rat(edge.Length, 1)), lead, lefthand)>>)
    ELSE IF edge.geomType = "LINE" /\ edge.startPoint[2] = edge.endPoint[2]
    THEN Elem("lineTo", i, <<transform(Pt(edge.endPoint), lead, lefthand)>>)
    ELSE Elem("spline", i, SplinePoints(i, edge, vert_count, lead, lefthand))

IsSplineEdge(edge) ==
    ~(edge.geomType = "LINE" /\ edge.startPoint[1] = edge.endPoint[1])
    /\ ~(edge.geomType = "LINE" /\ edge.startPoint[2] = edge.endPoint[2])

RECURSIVE BuildFrom(_, _, _, _, _, _)
\* the loop "for (i, edge) in enumerate(wire.Edges())" from edge i on:
\* iter_dist = length / vert_count raises ZeroDivisionError when vert_count = 0
BuildFrom(i, edges, vertices_count, lead, lefthand, emitted) ==
    IF i > Len(edges)
    THEN [raised |-> NoError, emitted |-> Append(emitted, Elem("close", 0, <<>>))]
    ELSE IF IsSplineEdge(edges[i]) /\ vertices_count[i] = 0
    THEN [raised |-> Raise("ZeroDivisionError", {}), emitted |-> emitted]
    ELSE BuildFrom(i + 1, edges, vertices_count, lead, lefthand,
                   Append(emitted, EdgeElement(i, edges[i], vertices_count[i], lead, lefthand)))

RECURSIVE MaxZ(_)
MaxZ(edges) ==
    LET e == Head(edges)
        m == IF e.startPoint[2] > e.endPoint[2] THEN e.startPoint[2] ELSE e.endPoint[2]
    IN  IF Len(edges) = 1 THEN m
        ELSE LET r == MaxZ(Tail(edges)) IN IF r > m THEN r ELSE m
RECURSIVE MinZ(_)
MinZ(edges) ==
    LET e == Head(edges)
        m == IF e.startPoint[2] < e.endPoint[2] THEN e.startPoint[2] ELSE e.endPoint[2]
    IN  IF Len(edges) = 1 THEN m
        ELSE LET r == MinZ(Tail(edges)) IN IF r < m THEN r ELSE m

\* profile_bb.zmax - profile_bb.zmin of wire.BoundingBox(); the curved edges
\* of the model are monotone in z, so the box is spanned by the end points
BoundingBoxLead(wire) == MaxZ(wire.edges) - MinZ(wire.edges)

\* mutant: only a list that is too short is rejected
LengthMismatch_shorterOnly(min_vertices, edges) == Len(min_vertices.items) < Len(edges)

\* if len(min_vertices) != len(edges)
LengthMismatch(min_vertices, edges) == Len(min_vertices.items) # Len(edges)

XsFail(err) == [raised |-> err, emitted |-> <<>>, vertices_count |-> <<>>, lead |-> 0,
                returned |-> FALSE]

\* profile_to_cross_section(profile, lefthand, min_vertices)
profile_to_cross_section(profile, lefthand, min_vertices) ==
    IF profile.cls # "Workplane"
    THEN XsFail(Raise("TypeError", {"profile"}))
    ELSE IF min_vertices.cls \notin {"int", "list", "tuple"}
    THEN XsFail(Raise("TypeError", {"min_vertices"}))
    ELSE IF profile.val.cls # "Wire"
    THEN XsFail(Raise("TypeError", {"Wire"}))
    ELSE
      LET wire  == profile.val
          lead  == BoundingBoxLead(wire)
          edges == wire.edges
          total == SumLengths(edges)
      IN  IF min_vertices.cls # "int" /\ LengthMismatch(min_vertices, edges)
          THEN XsFail(Raise("ValueError", {}))
          ELSE
            LET vertices_count ==
                    IF min_vertices.cls = "int"
                    THEN [i \in 1..Len(edges) |->
                            EdgeVertices(edges[i].Length, total, min_vertices.n)]
                    ELSE min_vertices.items
            IN  IF lead = 0
                \* the first transform divides by the lead
                THEN [XsFail(Raise("ZeroDivisionError", {})) EXCEPT
                        !.vertices_count = vertices_count]
                ELSE
                  LET start_v == Pt(edges[1].startPoint)
                      built == BuildFrom(1, edges, vertices_count, lead, lefthand,
                                 <<Elem("moveTo", 0, <<transform(start_v, lead, lefthand)>>)>>)
                  IN  [raised |-> built.raised,
                       emitted |-> built.emitted,
                       vertices_count |-> vertices_count,
                       lead |-> lead,
                       returned |-> built.raised.kind = "none"]

\* ---- inputs
\* edge shapes, relative to the point where the previous edge ended
SegShapes ==
    {[geomType |-> "LINE", d |-> <<0, h>>, Length |-> h, ParameterRange |-> <<0, h>>] :
        h \in 1..MaxLen}
    \cup
    {[geomType |-> "LINE", d |-> <<1, 0>>, Length |-> 1, ParameterRange |-> <<0, 1>>],
     [geomType |-> "LINE", d |-> <<3, 4>>, Length |-> 5, ParameterRange |-> <<0, 5>>],
     [geomType |-> "CIRCLE", d |-> <<1, 1>>, Length |-> 2, ParameterRange |-> <<1, 3>>],
     [geomType |-> "BSPLINE", d |-> <<-1, 2>>, Length |-> 3, ParameterRange |-> <<0, 1>>]}

RECURSIVE Chain(_, _)
\* the contiguous edges of a wire drawn from `start` with the given shapes
Chain(start, shapes) ==
    IF shapes = <<>> THEN <<>>
    ELSE LET sh == Head(shapes)
             end == <<start[1] + sh.d[1], start[2] + sh.d[2]>>
         IN  <<[geomType |-> sh.geomType, startPoint |-> start, endPoint |-> end,
                Length |-> sh.Length, ParameterRange |-> sh.ParameterRange]>>
             \o Chain(end, Tail(shapes))

Workplane(edges) == [cls |-> "Workplane", val |-> [cls |-> "Wire", edges |-> edges]]
ProfileStart == <<2, 1>>
GoodProfiles ==
    {Workplane(Chain(ProfileStart, shapes)) :
        shapes \in UNION {[1..n -> SegShapes] : n \in 1..MaxSegs}}
\* a bare wire, a workplane with an empty stack, a workplane holding a solid
BadProfiles ==
    {[cls |-> "Wire", val |-> [cls |-> "Wire", edges |-> <<>>]],
     [cls |-> "Workplane", val |-> [cls |-> "Vector", edges |-> <<>>]],
     [cls |-> "Workplane", val |-> [cls |-> "Solid", edges |-> <<>>]]}

IntArg(n) == [cls |-> "int", n |-> n, items |-> <<>>]
SeqArg(cls, items) == [cls |-> cls, n |-> 0, items |-> items]
\* the min_vertices values tried on a profile of n edges
MinVerticesArgs(n) ==
    {IntArg(b) : b \in (0 - MaxBudget)..MaxBudget}
    \cup {SeqArg(c, [i \in 1..k |-> t[1] + t[2] * i]) :
            c \in {"list", "tuple"}, k \in 0..(n + 1),
            t \in ((0 - 1)..MaxCount) \X {0, 1}}
    \cup {[cls |-> "float", n |-> 0, items |-> <<>>],
          [cls |-> "NoneType", n |-> 0, items |-> <<>>]}

XsNoCall == [called |-> FALSE, profile |-> Workplane(<<>>), lefthand |-> FALSE,
             min_vertices |-> IntArg(0)]
XsIdleInit ==
    /\ xsIn = XsNoCall
    /\ xsOut = XsFail(NoError)

\* one call of profile_to_cross_section
XsCall ==
    /\ ~xsIn.called
    /\ \E profile \in GoodProfiles \cup BadProfiles, lefthand \in BOOLEAN :
        \E min_vertices \in MinVerticesArgs(Len(profile.val.edges)) :
            /\ xsIn' = [called |-> TRUE, profile |-> profile, lefthand |-> lefthand,
                        min_vertices |-> min_vertices]
            /\ xsOut' = profile_to_cross_section(profile, lefthand, min_vertices)
    /\ UNCHANGED <<csVars, thVars>>

\* ================================================================
\* types/threads/base.py : class Thread
\* ================================================================
\* Python values: t is the type, v the payload (a string is the non-numeric
\* "abc", a bool is 0 or 1)
PyVal(t, v) == [t |-> t, v |-> v]
PyNone == PyVal("NoneType", 0)

\* the attributes hasattr(self, key) finds on a fresh instance: the class
\* attributes (parameters and methods) and __doc__, which is None for a class
\* without a docstring
ClassAttrs ==
    [length |-> PyVal("float", 10), pitch |-> PyVal("float", 1),
     start_count |-> PyVal("int", 1), radius |-> PyVal("float", 3),
     inner |-> PyVal("bool", 0), lefthand |-> PyVal("bool", 0),
     build_profile |-> PyVal("method", 0), make |-> PyVal("method", 0),
     doc |-> PyNone]
\* the parameters the class declares (length ... lefthand)
ConfigKeys == {"length", "pitch", "start_count", "radius", "inner", "lefthand"}

\* type(default_value)(value)
Cast(default_value, value) ==
    CASE default_value.t = "float" ->
            IF value.t \in {"int", "float", "bool"}
            THEN [raised |-> NoError, value |-> PyVal("float", value.v)]
            ELSE IF value.t = "str"
            THEN [raised |-> Raise("ValueError", {}), value |-> PyNone]
            ELSE [raised |-> Raise("TypeError", {}), value |-> PyNone]
      [] default_value.t = "int" ->
            IF value.t \in {"int", "float", "bool"}
            THEN [raised |-> NoError, value |-> PyVal("int", value.v)]
            ELSE IF value.t = "str"
            THEN [raised |-> Raise("ValueError", {}), value |-> PyNone]
            ELSE [raised |-> Raise("TypeError", {}), value |-> PyNone]
      [] default_value.t = "bool" ->
            [raised |-> NoError,
             value |-> PyVal("bool", IF value.t = "NoneType" \/ (value.t # "str" /\ value.v = 0)
                                     THEN 0 ELSE 1)]
      \* a bound method's type cannot be called with one argument
      [] OTHER -> [raised |-> Raise("TypeError", {}), value |-> PyNone]

RECURSIVE InitLoop(_, _, _)
\* Thread.__init__: "for (key, value) in kwargs.items()"
InitLoop(cls, attrs, kwargs) ==
    IF kwargs = <<>> THEN [raised |-> NoError, attrs |-> attrs]
    ELSE LET key == Head(kwargs).key
             value == Head(kwargs).value
         IN  IF key \notin DOMAIN attrs
             THEN [raised |-> Raise("ValueError", {key, cls}), attrs |-> attrs]
             ELSE LET default_value == attrs[key]
                      c == IF default_value.t = "NoneType"
                           THEN [raised |-> NoError, value |-> value]
                           ELSE Cast(default_value, value)
                  IN  IF c.raised.kind # "none"
                      THEN [raised |-> c.raised, attrs |-> attrs]
                      ELSE InitLoop(cls, [attrs EXCEPT ![key] = c.value], Tail(kwargs))

\* ---- build_profile
ThreadClasses == {"Thread", "TriangularThread", "WireThread"}
\* build_profile as the concrete variants override it, a function of the
\* instance's parameters: TriangularThread draws a wire of three lines from
\* its radius and pitch; WireThread returns a bare wire instead of a workplane.
variant_profile(obj) ==
    IF obj.cls = "WireThread"
    THEN [cls |-> "Wire", val |-> [cls |-> "Wire", edges |-> <<>>]]
    ELSE Workplane(Chain(<<obj.attrs.radius.v, 1>>,
            <<[geomType |-> "LINE", d |-> <<3, 4>>, Length |-> 5, ParameterRange |-> <<0, 5>>],
              [geomType |-> "LINE", d |-> <<0, obj.attrs.pitch.v>>,
               Length |-> obj.attrs.pitch.v, ParameterRange |-> <<0, obj.attrs.pitch.v>>],
              [geomType |-> "LINE", d |-> <<-3, 4>>, Length |-> 5,
               ParameterRange |-> <<0, 5>>]>>))

\* Thread.build_profile raises NotImplementedError unless a variant overrides it
build_profile(obj) ==
    IF obj.cls = "Thread"
    THEN [raised |-> Raise("NotImplementedError", {obj.cls}), value |-> Workplane(<<>>)]
    ELSE [raised |-> NoError, value |-> variant_profile(obj)]

MinVerticesDefault == 20
HelixRadius == 1

\* mutant: the lead is taken as the top of the bounding box
make_lead_zmax(profile) == MaxZ(profile.val.edges)

\* make: profile_bb = profile.val().BoundingBox(); lead = zmax - zmin
make_lead(profile) == BoundingBoxLead(profile.val)

\* helical_path(pitch, length, radius, lefthand=...)
helical_path(pitch, length, radius, lefthand) ==
    [pitch |-> pitch, length |-> length, radius |-> radius, lefthand |-> lefthand]

NoPath == helical_path(0, 0, 0, FALSE)
NoSolid == [made |-> FALSE, valid |-> FALSE, sewn |-> FALSE, rebuilt |-> FALSE]
MkIdle == [profile |-> Workplane(<<>>), xsProfile |-> Workplane(<<>>),
           cross_section |-> <<>>, xsLead |-> 0, lead |-> 0, path |-> NoPath,
           thread |-> NoSolid, exc |-> NoError]

StageOrder == <<"profile-built", "cross-section-built", "path-built", "swept", "validated">>

\* ---- inputs
\* keyword names: the parameters, two names the class does not have, a method
\* name and "doc", which stands for __doc__
KwargKeys == ConfigKeys \cup {"foo", "bar", "make", "doc"}
KwargValues == {PyVal("int", 1), PyVal("int", 2), PyVal("str", 0), PyNone}
Kw(key, value) == [key |-> key, value |-> value]
\* keyword dictionaries in the order items() yields them: distinct keys
KwargSeqs ==
    {kw \in UNION {[1..n -> {Kw(k, v) : k \in KwargKeys, v \in KwargValues}] :
                     n \in 0..MaxKwargs} :
        \A i, j \in 1..Len(kw) : i # j => kw[i].key # kw[j].key}

ThNoCall == [called |-> FALSE, cls |-> "Thread", kwargs |-> <<>>]
NoObj == [ok |-> FALSE, cls |-> "Thread", attrs |-> ClassAttrs]

ThIdleInit ==
    /\ thIn = ThNoCall
    /\ thObj = NoObj
    /\ thErr = NoError
    /\ pc = "idle"
    /\ stages = <<>>
    /\ mk = MkIdle
    /\ result = NoSolid

\* Thread(**kwargs), or the same on a concrete variant
Construct ==
    /\ ~thIn.called
    /\ \E cls \in ThreadClasses, kwargs \in KwargSeqs :
        LET r == InitLoop(cls, ClassAttrs, kwargs)
        IN  /\ thIn' = [called |-> TRUE, cls |-> cls, kwargs |-> kwargs]
            /\ thErr' = r.raised
            /\ thObj' = IF r.raised.kind = "none"
                        THEN [ok |-> TRUE, cls |-> cls, attrs |-> r.attrs]
                        ELSE NoObj
    /\ UNCHANGED <<pc, stages, mk, result, csVars, xsVars>>

Raised(exc) ==
    /\ pc' = "raised"
    /\ mk' = [mk EXCEPT !.exc = exc]
    /\ UNCHANGED <<stages, result>>

Enter(stage) ==
    /\ pc' = stage
    /\ stages' = Append(stages, stage)

\* make: profile = self.build_profile()
MakeBuildProfile ==
    /\ pc = "idle" /\ thObj.ok
    /\ LET p == build_profile(thObj)
       IN  IF p.raised.kind # "none" THEN Raised(p.raised)
           ELSE /\ Enter("profile-built")
                /\ mk' = [mk EXCEPT !.profile = p.value]
                /\ UNCHANGED result
    /\ UNCHANGED <<thIn, thObj, thErr, csVars, xsVars>>

\* make: cross_section = profile_to_cross_section(self.build_profile(), lefthand=...)
MakeCrossSection ==
    /\ pc = "profile-built"
    /\ LET p == build_profile(thObj)
           xs == profile_to_cross_section(p.value, thObj.attrs.lefthand.v = 1,
                                          IntArg(MinVerticesDefault))
       IN  IF p.raised.kind # "none" THEN Raised(p.raised)
           ELSE IF xs.raised.kind # "none" THEN Raised(xs.raised)
           ELSE /\ Enter("cross-section-built")
                /\ mk' = [mk EXCEPT !.xsProfile = p.value, !.cross_section = xs.emitted,
                                    !.xsLead = xs.lead]
                /\ UNCHANGED result
    /\ UNCHANGED <<thIn, thObj, thErr, csVars, xsVars>>

\* make: lead from the bounding box, path = helical_path(lead, self.length, 1, ...);
\* the kernel's helix constructor may fail
MakePath ==
    /\ pc = "cross-section-built"
    /\ \E kernelOk \in BOOLEAN :
        IF ~kernelOk THEN Raised(Raise("OCCError", {}))
        ELSE LET lead == make_lead(mk.profile)
             IN  /\ Enter("path-built")
                 /\ mk' = [mk EXCEPT !.lead = lead,
                             !.path = helical_path(lead, thObj.attrs.length.v, HelixRadius,
                                                   thObj.attrs.lefthand.v = 1)]
                 /\ UNCHANGED result
    /\ UNCHANGED <<thIn, thObj, thErr, csVars, xsVars>>

\* mutant: the sweep is run before the path has been built
MakeSweep_beforePath ==
    /\ pc = "cross-section-built"
    /\ Enter("swept")
    /\ mk' = [mk EXCEPT !.thread = [made |-> TRUE, valid |-> TRUE,
                                    sewn |-> FALSE, rebuilt |-> FALSE]]
    /\ UNCHANGED <<result, thIn, thObj, thErr, csVars, xsVars>>

\* make: thread = cross_section.sweep(path, isFrenet=True); the kernel decides
\* whether the sweep succeeds and whether its solid is valid
MakeSweep ==
    /\ pc = "path-built"
    /\ \E kernelOk \in BOOLEAN, valid \in BOOLEAN :
        IF ~kernelOk THEN Raised(Raise("OCCError", {}))
        ELSE /\ Enter("swept")
             /\ mk' = [mk EXCEPT !.thread = [made |-> TRUE, valid |-> valid,
                                             sewn |-> FALSE, rebuilt |-> FALSE]]
             /\ UNCHANGED result
    /\ UNCHANGED <<thIn, thObj, thErr, csVars, xsVars>>

\* make: if not isValid(): sewShape(); wrapped = Solid(thread_shape); return thread.
\* sewShape and the Solid constructor are kernel calls that may raise; nothing
\* in make catches what they raise.
MakeValidate ==
    /\ pc = "swept"
    /\ IF mk.thread.valid
       THEN /\ Enter("validated")
            /\ result' = mk.thread
            /\ UNCHANGED mk
       ELSE \E sewOk \in BOOLEAN, solidOk \in BOOLEAN, validAfter \in BOOLEAN :
            IF ~sewOk THEN Raised(Raise("OCCError", {"sewShape"}))
            ELSE IF ~solidOk THEN Raised(Raise("OCCError", {"Solid"}))
            ELSE /\ Enter("validated")
                 /\ mk' = [mk EXCEPT !.thread = [made |-> TRUE, valid |-> validAfter,
                                                 sewn |-> TRUE, rebuilt |-> TRUE]]
                 /\ result' = mk'.thread
    /\ UNCHANGED <<thIn, thObj, thErr, csVars, xsVars>>

\* ================================================================
\* specifications
\* ================================================================
CsIdleInit ==
    /\ csOther = IdentityFrame /\ csThird = IdentityFrame
    /\ csPy = 3
    /\ csOut = CsIdle

\* a frame A has been constructed
InitCS == /\ csSelf \in Frames
          /\ CsIdleInit /\ XsIdleInit /\ ThIdleInit
CSNext ==
    \/ Compose
    \/ AddOther
SpecCS == InitCS /\ [][CSNext]_vars

InitXS == /\ csSelf = IdentityFrame
          /\ CsIdleInit /\ XsIdleInit /\ ThIdleInit
SpecXS == InitXS /\ [][XsCall]_vars

InitThread == /\ csSelf = IdentityFrame
              /\ CsIdleInit /\ XsIdleInit /\ ThIdleInit
ThreadNext ==
    \/ Construct
    \/ MakeBuildProfile
    \/ MakeCrossSection
    \/ MakePath
    \/ MakeSweep
    \/ MakeValidate
SpecThread == InitThread /\ [][ThreadNext]_vars

\* ================================================================
\* properties
\* ================================================================
SameFrame(f, g) == f.origin = g.origin /\ f.xDir = g.xDir /\ f.zDir = g.zDir

RECURSIVE SumSeq(_)
SumSeq(q) == IF q = <<>> THEN 0 ELSE Head(q) + SumSeq(Tail(q))

XsEdges == xsIn.profile.val.edges
XsIsWire == xsIn.profile.cls = "Workplane" /\ xsIn.profile.val.cls = "Wire"
XsValidArgs ==
    /\ XsIsWire
    /\ xsIn.min_vertices.cls \in {"int", "list", "tuple"}
    /\ xsIn.min_vertices.cls # "int" => Len(xsIn.min_vertices.items) = Len(XsEdges)
Midpoint(edge) == Known(Rat(edge.startPoint[1] + edge.endPoint[1], 2),
                        Rat(edge.startPoint[2] + edge.endPoint[2], 2))

\* C1: a keyword that is not one of the six configuration keys makes the
\* constructor raise a ValueError that names that keyword and the concrete
\* class; it is never accepted and never fails with another kind of error.
\* (Stated for a single keyword argument.)
C1_UnknownKeyIsValueError ==
    (thIn.called /\ Len(thIn.kwargs) = 1 /\ thIn.kwargs[1].key \notin ConfigKeys)
        => /\ thErr.kind = "ValueError"
           /\ thErr.names = {thIn.kwargs[1].key, thIn.cls}

\* C2: once the sweep has produced a solid, make does not raise: with an
\* invalid solid the repair is attempted and a solid is returned whether or
\* not the repair works; a valid solid is returned without a repair step.
C2_InvalidSolidNeverFails ==
    /\ (Len(stages) >= 4 => pc # "raised")
    /\ (pc = "validated" => result.made)
    /\ (pc = "validated" /\ ~result.sewn => result.valid)

\* C3: bad input is rejected before any cross-section element is emitted:
\* a profile that is not a workplane holding a wire raises TypeError, a
\* min_vertices that is not an int, list or tuple raises TypeError, a list or
\* tuple whose length differs from the number of edges raises ValueError.
C3_BadInputRejectedBeforeEmission ==
    xsIn.called =>
        /\ ~XsIsWire => (xsOut.raised.kind = "TypeError" /\ xsOut.emitted = <<>>)
        /\ xsIn.min_vertices.cls \notin {"int", "list", "tuple"}
              => (xsOut.raised.kind = "TypeError" /\ xsOut.emitted = <<>>)
        /\ (/\ XsIsWire
            /\ xsIn.min_vertices.cls \in {"list", "tuple"}
            /\ Len(xsIn.min_vertices.items) # Len(XsEdges))
              => (xsOut.raised.kind = "ValueError" /\ xsOut.emitted = <<>>)
        /\ ~XsValidArgs => ~xsOut.returned

C3_Witness ==
    /\ xsIn.called /\ XsIsWire
    /\ xsIn.min_vertices.cls = "tuple"
    /\ Len(xsIn.min_vertices.items) = Len(XsEdges) + 1
    /\ xsOut.raised.kind = "ValueError"

\* C4: the identity frame is neutral for + (A + identity equals A) and + is
\* associative ((A + B) + C equals A + (B + C)) in origin, x direction and
\* normal, for orthonormal frames.
C4_IdentityAndAssociativity ==
    csOut.op = "compose" =>
        /\ csOut.a_id.raised.kind = "none"
        /\ SameFrame(csOut.a_id.value, csSelf)
        /\ csOut.ab_c.raised.kind = "none" /\ csOut.a_bc.raised.kind = "none"
        /\ SameFrame(csOut.ab_c.value, csOut.a_bc.value)

C4_Witness ==
    /\ csOut.op = "compose"
    /\ csSelf.origin # <<0, 0, 0>> /\ csSelf.xDir = <<0, 1, 0>>
    /\ csOther.origin # <<0, 0, 0>> /\ csOther.zDir = <<1, 0, 0>>
    /\ csThird.origin # <<0, 0, 0>> /\ csThird.xDir = <<0, 0, -1>>
    /\ ~SameFrame(csOut.ab.value, csOut.bc.value)
    /\ SameFrame(csOut.ab_c.value, csOut.a_bc.value)

\* C5: adding a value that is not a CoordSystem raises a TypeError whose
\* message names the types of both operands, and produces no frame.
C5_AddNonFrameIsTypeError ==
    csOut.op = "add" =>
        /\ csOut.ab.raised.kind = "TypeError"
        /\ {csOther.cls, csSelf.cls} \subseteq csOut.ab.raised.names
        /\ csOut.ab.value = NoFrame

XsBudgetCall ==
    /\ xsIn.called /\ XsIsWire /\ xsIn.min_vertices.cls = "int"
    /\ Len(xsOut.vertices_count) = Len(XsEdges)

C7_EveryEdgeContributesAPoint ==
    (/\ xsIn.called /\ XsValidArgs /\ BoundingBoxLead(xsIn.profile.val) # 0
     /\ xsIn.min_vertices.n >= 0
     /\ \A k \in 1..Len(xsIn.min_vertices.items) : xsIn.min_vertices.items[k] >= 0) =>
        /\ xsOut.returned
        /\ \A i \in 1..Len(XsEdges) :
              \E k \in 1..Len(xsOut.emitted) :
                  xsOut.emitted[k].edge = i /\ Len(xsOut.emitted[k].pts) >= 1

C9_StagesInv ==
    /\ stages = SubSeq(StageOrder, 1, Len(stages))
    /\ pc \in {"idle", "raised"} \/ (stages # <<>> /\ pc = stages[Len(stages)])
    /\ pc = "raised" => (result = NoSolid /\ mk.exc.kind # "none")
    /\ result.made => (pc = "validated" /\ stages = StageOrder)
    /\ thErr.kind # "NotImplementedError"
    /\ (thObj.ok /\ thObj.cls = "Thread" /\ pc # "idle")
          => (pc = "raised" /\ stages = <<>> /\ mk.exc.kind = "NotImplementedError")
\* what holds of every step of a make() run
C9_StagesStep ==
    /\ pc = "raised" => (pc' = "raised" /\ stages' = stages /\ result' = NoSolid)
    /\ pc = "validated" => (pc' = "validated" /\ stages' = stages /\ result' = result)
    /\ pc' # pc =>
          \/ pc' = "raised" /\ stages' = stages
          \/ /\ Len(stages) < Len(StageOrder)
             /\ pc' = StageOrder[Len(stages) + 1]
             /\ stages' = Append(stages, pc')

\* C9: make enters the stages profile-built, cross-section-built, path-built,
\* swept, validated in that order, each once, never going back; a run that
\* raises stops where it is and returns no solid; a missing build_profile
\* raises NotImplementedError in make, not in the constructor.
C9_LinearPipeline == [](C9_StagesInv) /\ [][C9_StagesStep]_vars

C9_Witness ==
    /\ pc = "validated" /\ stages = StageOrder
    /\ result.made /\ result.rebuilt

\* C10: the cross-section is one moveTo at the transformed start point of the
\* first edge, one element per edge in order, and one close; a line of
\* constant x gives an arc through the transformed midpoint and end point,
\* otherwise a line of constant z gives a line to the transformed end point,
\* any other edge gives a spline through exactly vertices_count[i] transformed
\* points, the last of which is the transformed end point of the edge.
\* (Stated for the calls that return and in which every count is >= 1.)
C10_EmittedCrossSection ==
    (/\ xsIn.called /\ xsOut.returned
     /\ \A k \in 1..Len(xsOut.vertices_count) : xsOut.vertices_count[k] >= 1) =>
        LET em == xsOut.emitted
            n == Len(XsEdges)
            lead == xsOut.lead
            lh == xsIn.lefthand
        IN  /\ Len(em) = n + 2
            /\ em[1] = Elem("moveTo", 0, <<transform(Pt(XsEdges[1].startPoint), lead, lh)>>)
            /\ em[n + 2] = Elem("close", 0, <<>>)
            /\ \A i \in 1..n :
                LET edge == XsEdges[i]
                    el == em[i + 1]
                    end == transform(Pt(edge.endPoint), lead, lh)
                IN  /\ el.edge = i
                    /\ IF edge.geomType = "LINE" /\ edge.startPoint[1] = edge.endPoint[1]
                       THEN /\ el.op = "threePointArc"
                            /\ el.pts = <<transform(Midpoint(edge), lead, lh), end>>
                       ELSE IF edge.geomType = "LINE" /\ edge.startPoint[2] = edge.endPoint[2]
                       THEN el.op = "lineTo" /\ el.pts = <<end>>
                       ELSE /\ el.op = "spline"
                            /\ Len(el.pts) = xsOut.vertices_count[i]
                            /\ Len(el.pts) >= 1
                            /\ el.pts[Len(el.pts)] = end

====
